---- MODULE Spec2Model ----
(***************************************************************************)
(* A model of the yacc-parser front end: the tokenizer (src/src/lexer.rs), *)
(* the recursive-descent parser (src/src/parser.rs) and the printer        *)
(* (src/src/display.rs).                                                   *)
(*                                                                         *)
(* Source text is a sequence of one-character strings.  Every character of *)
(* the model is ASCII, so a byte offset is the number of characters before *)
(* it: the iterator position `chars` counts the characters consumed, and   *)
(* Lexer::curr_pos is that count.  A span start..end covers the characters *)
(* input[start+1] .. input[end].                                           *)
(***************************************************************************)
EXTENDS Integers, Sequences, FiniteSets, TLC

VARIABLES
    input,                  \* Lexer.input / Parser.input: the source text
    chars,                  \* Lexer.chars: characters consumed by the tokenizer run
    percent_percent_count,  \* Lexer.percent_percent_count
    emitted,                \* the tokens the tokenizer run has returned so far
    ended,                  \* the tokenizer run has returned None
    start,                  \* `start` of the latest call of Lexer::next
    skipped,                \* offsets skipped as whitespace or comment
    lexer,                  \* Parser.lexer: the token stream the parser pulls from
    tpos,                   \* tokens the parser has consumed from Parser.lexer
    pc,                     \* the parser's position in parse_grammar
    directives,             \* parse_head: directives
    prologues,              \* parse_head: prologues
    rules,                  \* parse_rules: rules
    name,                   \* parse_rule: name
    alternatives,           \* parse_rule: alternatives
    result,                 \* <<>> or <<the Grammar parse_grammar returned>>
    error,                  \* the panic that aborted the parse, or "none"
    grammar,                \* the Grammar handed to the printer, <<>> if none
    baseline,               \* the first parse result of the text being edited
    inserts                 \* whitespace/comment insertions made so far

vars == <<input, chars, percent_percent_count, emitted, ended, start, skipped,
          lexer, tpos, pc, directives, prologues, rules, name, alternatives,
          result, error, grammar, baseline, inserts>>

lexvars == <<chars, percent_percent_count, emitted, ended, start, skipped>>
parsevars == <<lexer, tpos, pc, directives, prologues, rules, name,
               alternatives, result, error>>

-----------------------------------------------------------------------------
(* Character classes of the match arms of Lexer::next.                     *)

Lower == {"a","b","c","d","e","f","g","h","i","j","k","l","m",
          "n","o","p","q","r","s","t","u","v","w","x","y","z"}
Upper == {"A","B","C","D","E","F","G","H","I","J","K","L","M",
          "N","O","P","Q","R","S","T","U","V","W","X","Y","Z"}
Letter == Lower \cup Upper
Digit == {"0","1","2","3","4","5","6","7","8","9"}
IdentChar == Letter \cup Digit \cup {"_"}
DirectiveChar == IdentChar \cup {"-"}
Whitespace == {"\n", " ", "\t"}

Min(S) == CHOOSE x \in S : \A y \in S : x <= y

\* A call of Lexer::next that returns Some(Spanned::new(token, start..end)),
\* leaving the iterator at `end`.
Tok(data, st, en, ppc) ==
    [data |-> data, start |-> st, end |-> en, ppc |-> ppc]

\* A call of Lexer::next that returns None: the iterator is exhausted.
NoTok(in, st, ppc) ==
    [data |-> "None", start |-> st, end |-> Len(in), ppc |-> ppc]

-----------------------------------------------------------------------------
(* The scanning loops of Lexer::next.  Each takes the number of characters *)
(* consumed so far and returns the number consumed when the loop ends, or  *)
(* -1 when the input ran out first (the arm breaks with Token::Err).       *)

\* for (_, c) in self.chars.by_ref() { if c == '\n' { break; } }
RECURSIVE line_comment(_, _)
line_comment(in, i) ==
    IF i >= Len(in) THEN Len(in)
    ELSE IF in[i + 1] = "\n" THEN i + 1
    ELSE line_comment(in, i + 1)

\* The loop of the "/*" arm and of the "%{" arm: consume up to and including
\* the first `a` that is directly followed by `b`.
RECURSIVE until_pair(_, _, _, _)
until_pair(in, i, a, b) ==
    IF i >= Len(in) THEN -1
    ELSE IF in[i + 1] = a
         THEN IF i + 1 >= Len(in) THEN -1
              ELSE IF in[i + 2] = b THEN i + 2
              ELSE until_pair(in, i + 1, a, b)
    ELSE until_pair(in, i + 1, a, b)

block_comment(in, i) == until_pair(in, i, "*", "/")

prologue_block(in, i) == until_pair(in, i, "%", "}")

\* while let Some((_, <class>)) = self.chars.peek() { self.chars.next(); }
RECURSIVE greedy(_, _, _)
greedy(in, i, class) ==
    IF i < Len(in) /\ in[i + 1] \in class THEN greedy(in, i + 1, class)
    ELSE i

\* The loop of the '"' arm.
RECURSIVE string_end(_, _)
string_end(in, i) ==
    IF i >= Len(in) THEN -1
    ELSE IF in[i + 1] = "\"" THEN i + 1
    ELSE string_end(in, i + 1)

\* A faulty code_block: the scan stops at the first '}' whatever the depth.
RECURSIVE code_block_flat(_, _, _)
code_block_flat(in, i, depth) ==
    IF i >= Len(in) THEN -1
    ELSE IF in[i + 1] = "}" THEN i + 1
    ELSE code_block_flat(in, i + 1, depth)

\* The loop of the '{' arm, entered with depth = 1.
RECURSIVE code_block(_, _, _)
code_block(in, i, depth) ==
    IF i >= Len(in) THEN -1
    ELSE IF in[i + 1] = "{" THEN code_block(in, i + 1, depth + 1)
    ELSE IF in[i + 1] = "}"
         THEN IF depth - 1 = 0 THEN i + 1
              ELSE code_block(in, i + 1, depth - 1)
    ELSE code_block(in, i + 1, depth)

\* The loop of the '<' arm: the count consumed, negated when the loop breaks
\* with Token::Err (the offending character is consumed too).
RECURSIVE type_name(_, _)
type_name(in, i) ==
    IF i >= Len(in) THEN -Len(in)
    ELSE IF in[i + 1] \in IdentChar THEN type_name(in, i + 1)
    ELSE IF in[i + 1] = ">" THEN i + 1
    ELSE -(i + 1)

\* A loop result as a token: Token::Err to the end of input when it ran out.
Closed(in, en, data, st, ppc) ==
    IF en = -1 THEN Tok("Err", st, Len(in), ppc) ELSE Tok(data, st, en, ppc)

-----------------------------------------------------------------------------
(* The arms of Lexer::next that look at a second character.                *)

\* '\'' arm, entered with the opening quote consumed (i characters consumed).
quoted_char(in, i, st, ppc) ==
    IF i >= Len(in) THEN Tok("Err", st, Len(in), ppc)
    ELSE IF i + 1 < Len(in) /\ in[i + 2] = "'" THEN Tok("Char", st, i + 2, ppc)
    ELSE Tok("Err", st, IF i + 1 < Len(in) THEN i + 2 ELSE Len(in), ppc)

\* A faulty is_epilogue: the epilogue starts one "%%" late.
is_epilogue_late(count) == count >= 3

\* if self.percent_percent_count >= 2 (after the increment)
is_epilogue(count) == count >= 2

\* '%' arm, entered with the '%' consumed.
percent(in, i, st, ppc) ==
    IF i >= Len(in) THEN NoTok(in, st, ppc)             \* self.chars.next()?
    ELSE LET c == in[i + 1] IN
         CASE c = "%" ->
                IF is_epilogue(ppc + 1)
                THEN Tok("Epilogue", st, Len(in), ppc + 1)
                ELSE Tok("PercentPercent", st, i + 1, ppc + 1)
           [] c = "{" ->
                Closed(in, prologue_block(in, i + 1), "Prologue", st, ppc)
           [] c \in Letter ->
                Tok("Directive", st, greedy(in, i + 1, DirectiveChar), ppc)
           [] OTHER -> Tok("Err", st, i + 1, ppc)

\* A faulty restart: `start` is left where the call set it, so that a
\* token's span takes in the whitespace and comments before it.
restart_kept(st, i) == st

\* What the whitespace and comment arms assign to `start` before `continue`,
\* with i characters consumed: start = self.curr_pos().
restart(st, i) == i

\* Lexer::next from the top of the 'outer loop, with i characters consumed
\* and `start` = st.
RECURSIVE scan(_, _, _, _)
scan(in, i, st, ppc) ==
    IF i >= Len(in) THEN NoTok(in, st, ppc)             \* self.chars.next()?
    ELSE LET c == in[i + 1] IN
    CASE c = "'" -> quoted_char(in, i + 1, st, ppc)
      [] c = "/" ->
           IF i + 1 >= Len(in) THEN NoTok(in, st, ppc)  \* self.chars.next()?
           ELSE IF in[i + 2] = "/"
                THEN LET j == line_comment(in, i + 2)
                     IN  scan(in, j, restart(st, j), ppc)
           ELSE IF in[i + 2] = "*"
                THEN LET j == block_comment(in, i + 2)
                     IN  IF j = -1 THEN Tok("Err", st, Len(in), ppc)
                         ELSE scan(in, j, restart(st, j), ppc)
           ELSE Tok("Err", st, i + 2, ppc)
      [] c \in Whitespace -> scan(in, i + 1, restart(st, i + 1), ppc)
      [] c = "=" -> Tok("Equal", st, i + 1, ppc)
      [] c \in Digit -> Tok("Number", st, greedy(in, i + 1, Digit), ppc)
      [] c = "\"" -> Closed(in, string_end(in, i + 1), "String", st, ppc)
      [] c = "%" -> percent(in, i + 1, st, ppc)
      [] c = "|" -> Tok("Bar", st, i + 1, ppc)
      [] c = ":" -> Tok("Colon", st, i + 1, ppc)
      [] c = ";" -> Tok("SemiColon", st, i + 1, ppc)
      [] c = "{" -> Closed(in, code_block(in, i + 1, 1), "Code", st, ppc)
      [] c \in Letter -> Tok("Ident", st, greedy(in, i + 1, IdentChar), ppc)
      [] c = "<" ->
           LET j == type_name(in, i + 1)
           IN  IF j < 0 THEN Tok("Err", st, -j, ppc) ELSE Tok("Type", st, j, ppc)
      [] OTHER -> Tok("Err", st, i + 1, ppc)

\* Lexer::next with the iterator at i: let mut start = self.curr_pos().
next(in, i, ppc) == scan(in, i, i, ppc)

\* The sequence a Lexer yields: next() until it returns None.
RECURSIVE tokens_from(_, _, _)
tokens_from(in, i, ppc) ==
    LET t == next(in, i, ppc)
    IN  IF t.data = "None" THEN <<>>
        ELSE <<[data |-> t.data, start |-> t.start, end |-> t.end]>>
             \o tokens_from(in, t.end, t.ppc)

\* Lexer::new(input) collected.
tokenize(in) == tokens_from(in, 0, 0)

-----------------------------------------------------------------------------
(* The parser's primitives.  Parser.lexer is a Peekable<Lexer>: it yields   *)
(* the tokens of tokenize(input) one at a time, and a Lexer's output does   *)
(* not depend on when it is pulled, so the parser's position in the stream  *)
(* is the number k of tokens it has consumed.  A panic aborts the parse.    *)

Ok(val, k) == [ok |-> TRUE, val |-> val, k |-> k, err |-> "none"]
Panic(msg) == [ok |-> FALSE, val |-> <<>>, k |-> 0, err |-> msg]

UnwrapNone == "called Option::unwrap() on a None value"
UnwrapErr == "called Result::unwrap() on an Err value"

\* self.lexer.peek() is Some(_)
has_next(ts, k) == k < Len(ts)

\* Parser::peek, where has_next: the data of the next token.
peek(ts, k) == ts[k + 1].data

\* Parser::text and the slices &self.input[spanned.span.clone()].
text(in, t) == SubSeq(in, t.start + 1, t.end)

\* A faulty expect: an error token passes for the token that is expected.
expect_lenient(ts, k, token) ==
    IF ~has_next(ts, k) THEN Panic(UnwrapNone)
    ELSE IF ts[k + 1].data # token /\ ts[k + 1].data # "Err"
         THEN Panic("Expected")
    ELSE Ok(ts[k + 1], k + 1)

\* Parser::expect: Parser::next unwraps the next token, then the kinds are
\* compared.
expect(ts, k, token) ==
    IF ~has_next(ts, k) THEN Panic(UnwrapNone)
    ELSE IF ts[k + 1].data # token THEN Panic("Expected")
    ELSE Ok(ts[k + 1], k + 1)

\* str::parse returns Ok: the text is a run of digits (a number token always
\* is; a value too large for the integer type is beyond the texts checked).
is_number(digits) ==
    digits # <<>> /\ \A k \in 1..Len(digits) : digits[k] \in Digit

\* str::parse of the digits of a number token.
RECURSIVE parse_number(_)
parse_number(digits) ==
    IF digits = <<>> THEN 0
    ELSE LET d == digits[Len(digits)]
             v == CHOOSE n \in 0..9 :
                      d = <<"0","1","2","3","4","5","6","7","8","9">>[n + 1]
         IN  10 * parse_number(SubSeq(digits, 1, Len(digits) - 1)) + v

\* The directive spellings parse_directive and parse_rule match on.
PureParserText == <<"%","p","u","r","e","-","p","a","r","s","e","r">>
ExpectText == <<"%","e","x","p","e","c","t">>
NamePrefixText == <<"%","n","a","m","e","-","p","r","e","f","i","x">>
LocationsText == <<"%","l","o","c","a","t","i","o","n","s">>
ParseParamText == <<"%","p","a","r","s","e","-","p","a","r","a","m">>
LexParamText == <<"%","l","e","x","-","p","a","r","a","m">>
UnionText == <<"%","u","n","i","o","n">>
TypeText == <<"%","t","y","p","e">>
TokenText == <<"%","t","o","k","e","n">>
LeftText == <<"%","l","e","f","t">>
RightText == <<"%","r","i","g","h","t">>
NonAssocText == <<"%","n","o","n","a","s","s","o","c">>
PrecText == <<"%","p","r","e","c">>

\* The test of the "%type" loop: matches!(self.peek().data, Token::Ident).
type_rule_name(data) == data = "Ident"

\* The loop of the "%type" arm of parse_directive.
RECURSIVE type_rule_names(_, _, _, _)
type_rule_names(in, ts, k, acc) ==
    IF ~has_next(ts, k) THEN Panic(UnwrapNone)
    ELSE IF ~type_rule_name(peek(ts, k)) THEN Ok(acc, k)
    ELSE type_rule_names(in, ts, k + 1, Append(acc, text(in, ts[k + 1])))

\* Parser::rule_name: val is <<>> for None and <<name>> for Some(name).
rule_name(in, ts, k) ==
    IF ~has_next(ts, k) THEN Panic(UnwrapNone)
    ELSE IF peek(ts, k) \in {"Ident", "Char"}
         THEN Ok(<<text(in, ts[k + 1])>>, k + 1)
    ELSE Ok(<<>>, k)

\* while let Some(ident) = self.rule_name() { rule_names.push(ident); }
RECURSIVE rule_names(_, _, _, _)
rule_names(in, ts, k, acc) ==
    LET r == rule_name(in, ts, k)
    IN  IF ~r.ok THEN r
        ELSE IF r.val = <<>> THEN Ok(acc, r.k)
        ELSE rule_names(in, ts, r.k, acc \o r.val)

\* The directives that hold one code block.
code_directive(in, ts, k, kind) ==
    LET c == expect(ts, k, "Code")
    IN  IF ~c.ok THEN c
        ELSE Ok([kind |-> kind, code |-> text(in, c.val)], c.k)

\* The directives that hold a list of rule names only.
names_directive(in, ts, k, kind) ==
    LET r == rule_names(in, ts, k, <<>>)
    IN  IF ~r.ok THEN r ELSE Ok([kind |-> kind, rule_names |-> r.val], r.k)

\* Parser::parse_directive.
parse_directive(in, ts, k) ==
    LET d == expect(ts, k, "Directive")
    IN  IF ~d.ok THEN d
        ELSE LET t == text(in, d.val) IN
        CASE t = PureParserText -> Ok([kind |-> "PureParser"], d.k)
          [] t = ExpectText ->
               LET n == expect(ts, d.k, "Number")
               IN  IF ~n.ok THEN n
                   ELSE IF ~is_number(text(in, n.val)) THEN Panic(UnwrapErr)
                   ELSE Ok([kind |-> "Expect",
                            number |-> parse_number(text(in, n.val))], n.k)
          [] t = NamePrefixText ->
               LET e == expect(ts, d.k, "Equal")
                   p == expect(ts, e.k, "String")
               IN  IF ~e.ok THEN e
                   ELSE IF ~p.ok THEN p
                   ELSE Ok([kind |-> "NamePrefix",
                            prefix |-> text(in, p.val)], p.k)
          [] t = LocationsText -> Ok([kind |-> "Locations"], d.k)
          [] t = ParseParamText -> code_directive(in, ts, d.k, "ParseParam")
          [] t = LexParamText -> code_directive(in, ts, d.k, "LexProgram")
          [] t = UnionText -> code_directive(in, ts, d.k, "Union")
          [] t = TypeText ->
               LET y == expect(ts, d.k, "Type")
                   r == type_rule_names(in, ts, y.k, <<>>)
               IN  IF ~y.ok THEN y
                   ELSE IF ~r.ok THEN r
                   ELSE Ok([kind |-> "Type",
                            type_name |-> text(in, y.val),
                            rule_names |-> r.val], r.k)
          [] t = TokenText ->
               IF ~has_next(ts, d.k) THEN Panic(UnwrapNone)
               ELSE LET typed == peek(ts, d.k) = "Type"
                        r == rule_names(in, ts, IF typed THEN d.k + 1 ELSE d.k,
                                        <<>>)
                    IN  IF ~r.ok THEN r
                        ELSE Ok([kind |-> "Token",
                                 token_name |-> IF typed
                                                THEN <<text(in, ts[d.k + 1])>>
                                                ELSE <<>>,
                                 rule_names |-> r.val], r.k)
          [] t = LeftText -> names_directive(in, ts, d.k, "Left")
          [] t = RightText -> names_directive(in, ts, d.k, "Right")
          [] t = NonAssocText -> names_directive(in, ts, d.k, "NonAssoc")
          [] OTHER -> Panic("Unknown directive")

\* self.input[prologue.span.start + 2..prologue.span.end - 1]
prologue_text(in, t) == SubSeq(in, t.start + 3, t.end - 1)

\* Parser::parse_prologue.
parse_prologue(in, ts, k) ==
    LET p == expect(ts, k, "Prologue")
    IN  IF ~p.ok THEN p ELSE Ok(prologue_text(in, p.val), p.k)

\* The elements loop of parse_rule.
RECURSIVE elements(_, _, _, _)
elements(in, ts, k, acc) ==
    IF ~has_next(ts, k) THEN Panic(UnwrapNone)
    ELSE IF peek(ts, k) \in {"Ident", "Char"}
         THEN elements(in, ts, k + 1, Append(acc, text(in, ts[k + 1])))
    ELSE Ok(acc, k)

\* let precedence = ... of parse_rule: <<>> is None, <<name>> is Some(name).
precedence(in, ts, k) ==
    IF ~has_next(ts, k) THEN Panic(UnwrapNone)
    ELSE IF peek(ts, k) # "Directive" THEN Ok(<<>>, k)
    ELSE IF text(in, ts[k + 1]) # PrecText THEN Panic("Excepted %prec")
    ELSE LET p == expect(ts, k + 1, "Ident")
         IN  IF ~p.ok THEN p ELSE Ok(<<text(in, p.val)>>, p.k)

\* let action = ... of parse_rule.
action(in, ts, k) ==
    IF ~has_next(ts, k) THEN Panic(UnwrapNone)
    ELSE IF peek(ts, k) = "Code" THEN Ok(<<text(in, ts[k + 1])>>, k + 1)
    ELSE Ok(<<>>, k)

\* One pass of the alternatives loop of parse_rule, up to the push.
alternative(in, ts, k) ==
    LET e == elements(in, ts, k, <<>>)
        p == precedence(in, ts, e.k)
        a == action(in, ts, p.k)
    IN  IF ~e.ok THEN e
        ELSE IF ~p.ok THEN p
        ELSE IF ~a.ok THEN a
        ELSE Ok([elements |-> e.val, precedence |-> p.val, action |-> a.val],
                a.k)

\* A faulty more_alternatives: any other token ends the rule like ';'
\* without being consumed.
more_alternatives_lenient(ts, k) ==
    IF ~has_next(ts, k) THEN Ok("SemiColon", k)
    ELSE IF peek(ts, k) = "Bar" THEN Ok("Bar", k + 1)
    ELSE IF peek(ts, k) = "SemiColon" THEN Ok("SemiColon", k + 1)
    ELSE Ok("SemiColon", k)

\* "Check if there are more alternatives" of parse_rule.
more_alternatives(ts, k) ==
    IF ~has_next(ts, k) THEN Panic(UnwrapNone)
    ELSE IF peek(ts, k) = "Bar" THEN Ok("Bar", k + 1)
    ELSE IF peek(ts, k) = "SemiColon" THEN Ok("SemiColon", k + 1)
    ELSE Panic("Expected '|' or ';'")

\* The head of parse_rule: the rule's name and the colon.
rule_head(in, ts, k) ==
    LET n == expect(ts, k, "Ident")
        c == expect(ts, n.k, "Colon")
    IN  IF ~n.ok THEN n
        ELSE IF ~c.ok THEN c
        ELSE Ok(text(in, n.val), c.k)

\* A faulty rules_continue: a rule is attempted whatever the next token
\* is while no rule has been parsed, so that a rule is required.
rules_continue_one(data, parsed) == data = "Ident" \/ parsed = <<>>

\* The test of the loop of parse_rules: while let Token::Ident = self.peek().data
rules_continue(data, parsed) == data = "Ident"

\* Parser::parse_epilogue.
parse_epilogue(in, ts, k) ==
    LET e == expect(ts, k, "Epilogue")
    IN  IF ~e.ok THEN e ELSE Ok(SubSeq(in, e.val.start + 3, e.val.end), e.k)

\* The Grammar parse_grammar builds.
Grammar(ds, rs, ps, epi) ==
    [directives |-> ds, rules |-> rs, prologues |-> ps, epilogue |-> epi]

-----------------------------------------------------------------------------
(* Bounds of the checked inputs.                                           *)

MaxLen == 3         \* length of the texts over the whole alphabet
MaxSepLen == 6      \* length of the texts over the separator alphabet
MaxBraceLen == 7    \* length of the texts over the brace alphabet

SeqsUpTo(S, n) == UNION {[1..k -> S] : k \in 0..n}

\* One character of every arm of Lexer::next.
Alphabet == {"'", "/", "*", "\n", " ", "\"", "%", "{", "}", "a", ";", "<",
             ">", "+"}
SepAlphabet == {"%", "a", " ", "{"}
BraceAlphabet == {"{", "}", "a"}

LexInputs == SeqsUpTo(Alphabet, MaxLen)
               \cup SeqsUpTo(SepAlphabet, MaxSepLen)
               \cup SeqsUpTo(BraceAlphabet, MaxBraceLen)

-----------------------------------------------------------------------------
(* The tokenizer run: a consumer calls Lexer::next until it returns None.   *)

ParserIdle ==
    /\ lexer = <<>> /\ tpos = 0
    /\ directives = <<>> /\ prologues = <<>> /\ rules = <<>>
    /\ name = <<>> /\ alternatives = <<>>
    /\ result = <<>> /\ error = "none"

LexerNew ==
    /\ chars = 0 /\ percent_percent_count = 0
    /\ emitted = <<>> /\ ended = FALSE /\ start = 0 /\ skipped = {}

Init ==
    /\ input \in LexInputs
    /\ LexerNew
    /\ pc = "tokenize"
    /\ ParserIdle
    /\ grammar = <<>> /\ baseline = <<>> /\ inserts = 0

\* One call of Lexer::next.
LexerNext ==
    /\ pc = "tokenize"
    /\ ~ended
    /\ LET t == next(input, chars, percent_percent_count)
       IN  /\ chars' = t.end
           /\ percent_percent_count' = t.ppc
           /\ start' = t.start
           /\ skipped' = skipped \cup ((chars + 1) .. t.start)
           /\ ended' = (t.data = "None")
           /\ emitted' = IF t.data = "None" THEN emitted
                         ELSE Append(emitted, [data |-> t.data,
                                               start |-> t.start,
                                               end |-> t.end])
    /\ UNCHANGED <<input, parsevars, grammar, baseline, inserts>>

Next == LexerNext

Spec == Init /\ [][Next]_vars

-----------------------------------------------------------------------------
(* The parse: Parser::parse_grammar, one action per loop pass.             *)

Abort(msg) ==
    /\ pc' = "panic"
    /\ error' = msg
    /\ UNCHANGED <<tpos, directives, prologues, rules, name, alternatives,
                   result>>

\* One pass of the loop of parse_head; on its break, the
\* expect(Token::PercentPercent) of parse_grammar.
ParseHead ==
    /\ pc = "head"
    /\ IF ~has_next(lexer, tpos) THEN Abort(UnwrapNone)
       ELSE IF peek(lexer, tpos) = "Directive"
       THEN LET d == parse_directive(input, lexer, tpos)
            IN  IF ~d.ok THEN Abort(d.err)
                ELSE /\ directives' = Append(directives, d.val)
                     /\ tpos' = d.k
                     /\ UNCHANGED <<pc, error, prologues, rules, name,
                                    alternatives, result>>
       ELSE IF peek(lexer, tpos) = "Prologue"
       THEN LET p == parse_prologue(input, lexer, tpos)
            IN  IF ~p.ok THEN Abort(p.err)
                ELSE /\ prologues' = Append(prologues, p.val)
                     /\ tpos' = p.k
                     /\ UNCHANGED <<pc, error, directives, rules, name,
                                    alternatives, result>>
       ELSE LET e == expect(lexer, tpos, "PercentPercent")
            IN  IF ~e.ok THEN Abort(e.err)
                ELSE /\ pc' = "rules"
                     /\ tpos' = e.k
                     /\ UNCHANGED <<error, directives, prologues, rules, name,
                                    alternatives, result>>
    /\ UNCHANGED <<input, lexer, lexvars, grammar, baseline, inserts>>

\* One test of the loop of parse_rules: the head of parse_rule when the loop
\* goes on, and parse_epilogue and the Grammar of parse_grammar when it ends.
ParseRules ==
    /\ pc = "rules"
    /\ IF ~has_next(lexer, tpos) THEN Abort(UnwrapNone)
       ELSE IF rules_continue(peek(lexer, tpos), rules)
       THEN LET h == rule_head(input, lexer, tpos)
            IN  IF ~h.ok THEN Abort(h.err)
                ELSE /\ pc' = "alternative"
                     /\ name' = h.val
                     /\ alternatives' = <<>>
                     /\ tpos' = h.k
                     /\ UNCHANGED <<error, directives, prologues, rules,
                                    result>>
       ELSE LET e == parse_epilogue(input, lexer, tpos)
            IN  IF ~e.ok THEN Abort(e.err)
                ELSE /\ pc' = "done"
                     /\ result' = <<Grammar(directives, rules, prologues,
                                            e.val)>>
                     /\ tpos' = e.k
                     /\ UNCHANGED <<error, directives, prologues, rules, name,
                                    alternatives>>
    /\ UNCHANGED <<input, lexer, lexvars, grammar, baseline, inserts>>

\* One pass of the alternatives loop of parse_rule, up to the push.
ParseAlternative ==
    /\ pc = "alternative"
    /\ LET a == alternative(input, lexer, tpos)
       IN  IF ~a.ok THEN Abort(a.err)
           ELSE /\ pc' = "terminator"
                /\ alternatives' = Append(alternatives, a.val)
                /\ tpos' = a.k
                /\ UNCHANGED <<error, directives, prologues, rules, name,
                               result>>
    /\ UNCHANGED <<input, lexer, lexvars, grammar, baseline, inserts>>

\* The end of a pass of the alternatives loop: '|' goes on, ';' ends the rule
\* and parse_rules pushes it.
ParseTerminator ==
    /\ pc = "terminator"
    /\ LET m == more_alternatives(lexer, tpos)
       IN  IF ~m.ok THEN Abort(m.err)
           ELSE /\ tpos' = m.k
                /\ IF m.val = "Bar"
                   THEN /\ pc' = "alternative"
                        /\ UNCHANGED rules
                   ELSE /\ pc' = "rules"
                        /\ rules' = Append(rules,
                               [name |-> name, alternatives |-> alternatives])
                /\ UNCHANGED <<error, directives, prologues, name,
                               alternatives, result>>
    /\ UNCHANGED <<input, lexer, lexvars, grammar, baseline, inserts>>

Parse == ParseHead \/ ParseRules \/ ParseAlternative \/ ParseTerminator

\* Parser::new(input, Lexer::new(input)).
ParserNew(in) ==
    /\ lexer = tokenize(in) /\ tpos = 0 /\ pc = "head"
    /\ directives = <<>> /\ prologues = <<>> /\ rules = <<>>
    /\ name = <<>> /\ alternatives = <<>>
    /\ result = <<>> /\ error = "none"

-----------------------------------------------------------------------------
(* The texts the parse is checked on: pieces of source text, concatenated.  *)

MaxHead == 4        \* pieces in the head of a text
MaxRule == 4        \* pieces in the rules section of a text
MaxDirectives == 1  \* whole directives in the head of a text

RECURSIVE Concat(_)
Concat(pieces) ==
    IF pieces = <<>> THEN <<>> ELSE Head(pieces) \o Concat(Tail(pieces))

Sp == <<" ">>
Nl == <<"\n">>
PP == <<"%", "%">>
CodeC == <<"{", "c", "}">>
TypeT == <<"<", "t", ">">>
CharB == <<"'", "b", "'">>
PrologueX == <<"%", "{", "x", "%", "}">>

HeadPieces == {TypeText, TypeT, <<"a", " ">>, CharB, PrologueX, <<"+">>}

RulePieces == {<<"a", " ">>, CharB, <<":">>, <<";">>, <<"|">>, CodeC,
               PrecText \o Sp}

WholeDirectives ==
    {PureParserText \o Nl,
     ExpectText \o <<" ", "1", "2", "\n">>,
     NamePrefixText \o <<"=", "\"", "s", "\"", "\n">>,
     LocationsText \o Nl,
     ParseParamText \o Sp \o CodeC \o Nl,
     LexParamText \o Sp \o CodeC \o Nl,
     UnionText \o CodeC \o Nl,
     TypeText \o TypeT \o <<"a", " ", "b", "\n">>,
     TokenText \o TypeT \o <<"a", " ">> \o CharB \o Nl,
     TokenText \o <<" ", "a", "\n">>,
     LeftText \o Sp \o CharB \o Nl,
     RightText \o <<" ", "a", "\n">>,
     NonAssocText \o <<" ", "a", "\n">>,
     <<"%", "f", "o", "o", "\n">>,
     PrologueX \o Nl}

OneRule == <<"a", ":", "a", " ">> \o CharB \o CodeC
             \o <<"|", ";", "\n">>

\* A text that parses and visits every position of the parse: directive
\* arguments and rule names in the head, and in the rules section elements,
\* a precedence, an action, both terminators and a second rule.
ErrBase ==
    <<TokenText, TypeT, <<"a", " ">>, TypeText, TypeT, <<"a", " ">>,
      ExpectText, <<" ", "1", " ">>, UnionText, CodeC, PP,
      <<"a">>, <<":">>, <<"a", " ">>, CharB, PrecText \o Sp, <<"a", " ">>,
      CodeC, <<"|">>, <<";">>, <<"a">>, <<":">>, <<";">>, PP, <<"x">>>>

\* Texts the tokenizer makes an error token of: an unrecognized character, an
\* unclosed quoted character, an unclosed type name, a lone '/' before a
\* space.
ErrTexts == {<<"+">>, <<"'", "b", " ">>, <<"<", "t", " ">>, <<"/", " ">>}

\* ErrBase, and ErrBase with one error text put before any of its pieces or
\* after the last.
ErrInputs ==
    {Concat(ErrBase)}
    \cup {Concat(SubSeq(ErrBase, 1, n)) \o e
             \o Concat(SubSeq(ErrBase, n + 1, Len(ErrBase))) :
             n \in 0..Len(ErrBase), e \in ErrTexts}

ParseInputs ==
    ErrInputs \cup
    {Concat(h) \o t : h \in SeqsUpTo(HeadPieces, MaxHead),
                      t \in {<<>>, PP \o OneRule \o PP \o Nl}}
    \cup {Concat(d) \o t : d \in SeqsUpTo(WholeDirectives, MaxDirectives),
                           t \in {PP \o PP, PP \o OneRule \o PP \o Nl}}
    \cup {PP \o Concat(r) \o t : r \in SeqsUpTo(RulePieces, MaxRule),
                                 t \in {<<>>, PP \o <<"x">>}}

InitParse ==
    /\ input \in ParseInputs
    /\ LexerNew
    /\ ParserNew(input)
    /\ grammar = <<>> /\ baseline = <<>> /\ inserts = 0

SpecParse == InitParse /\ [][Parse]_vars

-----------------------------------------------------------------------------
(* The printer: the Display implementations of display.rs.                 *)

\* Display of the number of Directive::Expect: its decimal digits.
RECURSIVE fmt_number(_)
fmt_number(n) ==
    LET d == <<"0","1","2","3","4","5","6","7","8","9">>[(n % 10) + 1]
    IN  IF n < 10 THEN <<d>> ELSE fmt_number(n \div 10) \o <<d>>

\* for rule_name in rule_names { write!(f, " {}", rule_name)?; }
RECURSIVE fmt_names(_)
fmt_names(names) ==
    IF names = <<>> THEN <<>>
    ELSE Sp \o Head(names) \o fmt_names(Tail(names))

\* writeln!(f, "%<name> {{ {} }}", code)
fmt_code_directive(spelling, code) ==
    spelling \o <<" ", "{", " ">> \o code \o <<" ", "}", "\n">>

\* impl Display for Directive.
fmt_directive(d) ==
    CASE d.kind = "PureParser" -> PureParserText \o Nl
      [] d.kind = "Expect" -> ExpectText \o Sp \o fmt_number(d.number) \o Nl
      [] d.kind = "NamePrefix" ->
           NamePrefixText \o <<"=", "\"">> \o d.prefix \o <<"\"", "\n">>
      [] d.kind = "Locations" -> LocationsText \o Nl
      [] d.kind = "ParseParam" -> fmt_code_directive(ParseParamText, d.code)
      [] d.kind = "LexProgram" -> fmt_code_directive(LexParamText, d.code)
      [] d.kind = "Union" -> fmt_code_directive(UnionText, d.code)
      [] d.kind = "Type" ->
           TypeText \o Sp \o d.type_name \o fmt_names(d.rule_names) \o Nl
      [] d.kind = "Token" ->
           TokenText
             \o (IF d.token_name = <<>> THEN <<>> ELSE Sp \o d.token_name[1])
             \o fmt_names(d.rule_names) \o Nl
      [] d.kind = "Left" -> LeftText \o fmt_names(d.rule_names) \o Nl
      [] d.kind = "Right" -> RightText \o fmt_names(d.rule_names) \o Nl
      [] d.kind = "NonAssoc" -> NonAssocText \o fmt_names(d.rule_names) \o Nl

\* impl Display for Alternative.
fmt_alternative(a) ==
    fmt_names(a.elements)
      \o (IF a.precedence = <<>> THEN <<>>
          ELSE Sp \o PrecText \o Sp \o a.precedence[1])
      \o (IF a.action = <<>> THEN <<>> ELSE Sp \o a.action[1])

\* for alternative in &self.alternatives { writeln!(f, "    |{}", alternative)?; }
RECURSIVE fmt_alternatives(_)
fmt_alternatives(alts) ==
    IF alts = <<>> THEN <<>>
    ELSE <<" ", " ", " ", " ", "|">> \o fmt_alternative(Head(alts)) \o Nl
           \o fmt_alternatives(Tail(alts))

\* impl Display for Rule.
fmt_rule(r) ==
    r.name \o <<":", "\n">> \o fmt_alternatives(r.alternatives)
      \o <<";", "\n">>

\* str::lines: the text split at "\n" (a "\r" before it is dropped too); a
\* last line that is empty is not a line.
RECURSIVE lines(_)
lines(s) ==
    IF s = <<>> THEN <<>>
    ELSE LET ends == {k \in 1..Len(s) : s[k] = "\n"}
         IN  IF ends = {} THEN <<s>>
             ELSE LET e == Min(ends)
                      cut == IF e > 1 /\ s[e - 1] = "\r" THEN e - 2 ELSE e - 1
                  IN  <<SubSeq(s, 1, cut)>> \o lines(SubSeq(s, e + 1, Len(s)))

\* for x in xs { writeln!(f, "{}", x)?; } with x already formatted.
RECURSIVE writeln_each(_)
writeln_each(texts) ==
    IF texts = <<>> THEN <<>>
    ELSE Head(texts) \o Nl \o writeln_each(Tail(texts))

\* impl Display for Grammar.
fmt_grammar(g) ==
    writeln_each([n \in 1..Len(g.directives) |-> fmt_directive(g.directives[n])])
      \o PP \o Nl
      \o writeln_each([n \in 1..Len(g.rules) |-> fmt_rule(g.rules[n])])
      \o PP \o Nl
      \o writeln_each(lines(g.epilogue))

-----------------------------------------------------------------------------
(* The round trip: a Grammar is printed and the text is parsed.            *)

MaxDocDirectives == 1   \* directives of a printed Grammar
MaxDocRules == 1        \* rules of a printed Grammar
MaxDocAlternatives == 2 \* alternatives of a rule of a printed Grammar

NameA == <<"a">>

\* Directives as the parser stores them.
DocDirectives ==
    {[kind |-> "PureParser"],
     [kind |-> "Expect", number |-> 12],
     [kind |-> "NamePrefix", prefix |-> <<"\"", "s", "\"">>],
     [kind |-> "Locations"],
     [kind |-> "ParseParam", code |-> CodeC],
     [kind |-> "LexProgram", code |-> CodeC],
     [kind |-> "Union", code |-> CodeC],
     [kind |-> "Type", type_name |-> TypeT, rule_names |-> <<NameA>>],
     [kind |-> "Token", token_name |-> <<TypeT>>, rule_names |-> <<NameA, CharB>>],
     [kind |-> "Token", token_name |-> <<>>, rule_names |-> <<NameA>>],
     [kind |-> "Left", rule_names |-> <<CharB>>],
     [kind |-> "Right", rule_names |-> <<NameA>>],
     [kind |-> "NonAssoc", rule_names |-> <<>>]}

DocAlternatives ==
    {[elements |-> <<>>, precedence |-> <<>>, action |-> <<>>],
     [elements |-> <<NameA, CharB>>, precedence |-> <<>>, action |-> <<CodeC>>],
     [elements |-> <<NameA>>, precedence |-> <<NameA>>, action |-> <<>>]}

DocRules ==
    {[name |-> NameA, alternatives |-> a] :
        a \in SeqsUpTo(DocAlternatives, MaxDocAlternatives) \ {<<>>}}

DocEpilogues == {<<>>, Nl, <<"\n", "x", "\n">>, <<"x">>}

\* Well-formed documents: every rule has at least one alternative.
Documents ==
    {Grammar(ds, rs, <<>>, e) :
        ds \in SeqsUpTo(DocDirectives, MaxDocDirectives),
        rs \in SeqsUpTo(DocRules, MaxDocRules),
        e \in DocEpilogues}

InitRoundTrip ==
    /\ grammar \in {<<g>> : g \in Documents}
    /\ input = <<>>
    /\ LexerNew
    /\ ParserIdle
    /\ pc = "render"
    /\ baseline = <<>> /\ inserts = 0

\* The Grammar is printed (format!("{}", grammar)) and a Parser is made of the
\* text.
Render ==
    /\ pc = "render"
    /\ input' = fmt_grammar(grammar[1])
    /\ lexer' = tokenize(input')
    /\ pc' = "head"
    /\ UNCHANGED <<lexvars, tpos, directives, prologues, rules, name,
                   alternatives, result, error, grammar, baseline, inserts>>

SpecRoundTrip == InitRoundTrip /\ [][Render \/ Parse]_vars

-----------------------------------------------------------------------------
(* Edits of a text that parses: whitespace and comments put between tokens. *)

MaxInserts == 1     \* insertions made into one text

Fillers == {Sp, <<"\t">>,
            <<"/", "/", "%", "%", "\n">>,
            <<"/", "*", "*", ";", "*", "/">>}

\* The offsets right after a token that has a successor or right before a
\* token: the places between two adjacent tokens.
InsertionPoints(ts) ==
    {ts[n].end : n \in 1..(Len(ts) - 1)} \cup {ts[n].start : n \in 1..Len(ts)}

EditInputs ==
    {d \o PP \o r \o PP \o e :
        d \in {<<>>, PrologueX,
                ExpectText \o <<" ", "1", "2">>,
                LeftText \o <<" ", "a", "/", "*", "c", "*", "/">> \o CharB,
                TokenText \o TypeT \o <<"a", " ">> \o CharB \o Nl},
        r \in {<<>>, <<"a", ":">> \o CharB \o CodeC \o <<"|", ";">>},
        e \in {<<>>, <<"\n", "x">>}}

InitInsert ==
    /\ input \in EditInputs
    /\ LexerNew
    /\ ParserNew(input)
    /\ grammar = <<>> /\ baseline = <<>> /\ inserts = 0

\* The text has parsed; a filler is put between two of its tokens and the
\* new text is parsed by a new Parser.
Insert ==
    /\ pc = "done"
    /\ inserts < MaxInserts
    /\ \E p \in InsertionPoints(lexer), f \in Fillers :
          /\ input' = SubSeq(input, 1, p) \o f \o SubSeq(input, p + 1, Len(input))
          /\ lexer' = tokenize(input')
    /\ baseline' = IF inserts = 0 THEN result ELSE baseline
    /\ inserts' = inserts + 1
    /\ tpos' = 0 /\ pc' = "head"
    /\ directives' = <<>> /\ prologues' = <<>> /\ rules' = <<>>
    /\ name' = <<>> /\ alternatives' = <<>>
    /\ result' = <<>> /\ error' = "none"
    /\ UNCHANGED <<lexvars, grammar>>

SpecInsert == InitInsert /\ [][Insert \/ Parse]_vars

-----------------------------------------------------------------------------
(* Properties of the tokenizer run.                                        *)

Covered(k) == \E n \in 1..Len(emitted) :
                  emitted[n].start < k /\ k <= emitted[n].end

StartsWith(t, a, b) ==
    /\ t.end - t.start >= 2
    /\ input[t.start + 1] = a
    /\ input[t.start + 2] = b

\* The emitted tokens whose text starts with "%%".
Separators == {n \in 1..Len(emitted) : StartsWith(emitted[n], "%", "%")}

\* C3: the first "%%" met at a token start is a plain separator token of two
\* characters, the second is the epilogue token, whose span runs to the end
\* of the input, and the epilogue token is the last token ever emitted.
C3_SeparatorThenEpilogue ==
    /\ \A n \in Separators :
          IF n = Min(Separators)
          THEN /\ emitted[n].data = "PercentPercent"
               /\ emitted[n].end = emitted[n].start + 2
          ELSE /\ emitted[n].data = "Epilogue"
               /\ emitted[n].end = Len(input)
    /\ \A n \in 1..Len(emitted) :
          /\ emitted[n].data \in {"PercentPercent", "Epilogue"}
                => n \in Separators
          /\ emitted[n].data = "Epilogue" => n = Len(emitted)

\* C3 witness: the run has ended, and the epilogue token holds a third "%%".
C3_Witness ==
    /\ ended
    /\ \E n \in 1..Len(emitted) :
          /\ emitted[n].data = "Epilogue"
          /\ \E k \in (emitted[n].start + 3)..(Len(input) - 1) :
                input[k] = "%" /\ input[k + 1] = "%"

\* C4: the spans are non-empty, in order, without overlap and within the
\* input, and when the run has ended every character outside all spans was
\* skipped as whitespace or comment.
C4_SpansCoverInput ==
    /\ \A n \in 1..Len(emitted) :
          /\ emitted[n].start < emitted[n].end
          /\ emitted[n].end <= Len(input)
          /\ n > 1 => emitted[n - 1].end <= emitted[n].start
    /\ ended => \A k \in 1..Len(input) : Covered(k) \/ k \in skipped

\* The characters some arm of the tokenizer starts a token or a skip at.
TokenStarts == Letter \cup Digit \cup Whitespace
                 \cup {"'", "/", "=", "\"", "%", "|", ":", ";", "{", "<"}

\* C5: every lexical error is an error token.  The stream ends only once
\* nothing but skipped whitespace and comments is left, so no character ends
\* it early or is dropped; and a token that starts at a quote, a '/', a '"',
\* a '%' or an unrecognized character is an error token exactly when the
\* text there is malformed.
C5_ErrorsAreTokens ==
    /\ ended => start = Len(input)
    /\ \A n \in 1..Len(emitted) :
          LET t == emitted[n]
              c == input[t.start + 1]
              rest == (t.start + 3)..Len(input)
          IN  /\ c = "'" =>
                   t.data = IF t.start + 3 <= Len(input)
                               /\ input[t.start + 3] = "'"
                            THEN "Char" ELSE "Err"
              /\ c = "/" => t.data = "Err"
              /\ c = "\"" =>
                   t.data = IF \E k \in (t.start + 2)..Len(input) :
                                  input[k] = "\""
                            THEN "String" ELSE "Err"
              /\ c = "%" =>
                   IF t.start + 2 <= Len(input) /\ input[t.start + 2] = "%"
                   THEN t.data \in {"PercentPercent", "Epilogue"}
                   ELSE IF t.start + 2 <= Len(input)
                           /\ input[t.start + 2] = "{"
                   THEN t.data = IF \E k \in rest : /\ k < Len(input)
                                                    /\ input[k] = "%"
                                                    /\ input[k + 1] = "}"
                                 THEN "Prologue" ELSE "Err"
                   ELSE IF t.start + 2 <= Len(input)
                           /\ input[t.start + 2] \in Letter
                   THEN t.data = "Directive"
                   ELSE t.data = "Err"
              /\ c \notin TokenStarts => t.data = "Err"

Depth(a, b) == Cardinality({k \in a..b : input[k] = "{"})
                 - Cardinality({k \in a..b : input[k] = "}"})

\* C10: a token that starts at '{' is one code-block token ending at the '}'
\* where the depth first returns to 0, or an error token to the end of the
\* input when the depth never returns to 0; no other token is a code block.
C10_BalancedBraces ==
    \A n \in 1..Len(emitted) :
        LET t == emitted[n]
            closes == {e \in (t.start + 1)..Len(input) :
                          Depth(t.start + 1, e) = 0}
        IN  IF input[t.start + 1] = "{"
            THEN IF closes = {}
                 THEN t.data = "Err" /\ t.end = Len(input)
                 ELSE t.data = "Code" /\ t.end = Min(closes)
            ELSE t.data # "Code"

\* C10 witness: a code-block token with a nested pair of braces inside.
C10_Witness ==
    \E n \in 1..Len(emitted) :
        /\ emitted[n].data = "Code"
        /\ \E k \in (emitted[n].start + 2)..(emitted[n].end - 1) :
              input[k] = "{"

-----------------------------------------------------------------------------
(* Properties of the parse.                                                *)

NextIs(kinds) == has_next(lexer, tpos) /\ peek(lexer, tpos) \in kinds

\* C6: when the token after a parsed alternative is neither '|' nor ';', or
\* the stream has ended there, the parse aborts; an aborted parse has
\* produced no document and never produces one.
C6_MissingTerminatorAborts ==
    /\ [][(pc = "terminator" /\ ~NextIs({"Bar", "SemiColon"}))
             => (pc' = "panic" /\ result' = <<>>)]_vars
    /\ [][pc = "panic" => (pc' = "panic" /\ result' = <<>>)]_vars
    /\ [](pc = "panic" => result = <<>>)

\* C6 witness: the parse was aborted after an alternative, at a token that
\* is neither '|' nor ';'.
C6_Witness ==
    /\ pc = "panic"
    /\ error = "Expected '|' or ';'"
    /\ alternatives # <<>>
    /\ ~NextIs({"Bar", "SemiColon"})

\* The rules section is empty: the first "%%" is directly followed, up to
\* whitespace and comments, by the second.
EmptyRulesSection ==
    \E j \in 1..(Len(lexer) - 1) :
        lexer[j].data = "PercentPercent" /\ lexer[j + 1].data = "Epilogue"

\* The tokens up to the first "%%", which the head of the parse consumes.
HeadLength ==
    Min({j \in 1..Len(lexer) : lexer[j].data = "PercentPercent"})

\* C7 as stated: every document the parse returns holds at least one rule,
\* and the parse of a text whose rules section is empty fails.
C7_AtLeastOneRule ==
    /\ pc = "done" => Len(result[1].rules) >= 1
    /\ EmptyRulesSection => pc # "done"

\* C7 as amended: rules are optional.  A returned document holds no rule
\* exactly when the rules section is empty, and the parse of a text whose
\* rules section is empty fails only in the head, before the first "%%".
C7_RulesAreOptional ==
    /\ pc = "done" => (result[1].rules = <<>> <=> EmptyRulesSection)
    /\ (EmptyRulesSection /\ pc = "panic") => tpos < HeadLength

\* C7 witness: a document with no rule has been returned.
C7_Witness ==
    /\ pc = "done"
    /\ EmptyRulesSection
    /\ result[1].rules = <<>>

\* The end of the run of identifiers and quoted characters that starts after
\* k tokens of the stream.
RECURSIVE NamesEnd(_)
NamesEnd(k) ==
    IF k < Len(lexer) /\ lexer[k + 1].data \in {"Ident", "Char"}
    THEN NamesEnd(k + 1)
    ELSE k

Texts(from, to) == [n \in 1..(to - from) |-> text(input, lexer[from + n])]

\* C8: at "%type" and its type name, followed by a run of identifiers and
\* quoted characters that ends at a token that is neither, the parse adds one
\* Type directive whose rule names are the whole run, in order.
C8_TypeTakesQuotedCharacters ==
    [][(/\ pc = "head"
        /\ tpos + 1 < Len(lexer)
        /\ lexer[tpos + 1].data = "Directive"
        /\ text(input, lexer[tpos + 1]) = TypeText
        /\ lexer[tpos + 2].data = "Type"
        /\ NamesEnd(tpos + 2) < Len(lexer))
          => (/\ pc' = "head"
              /\ tpos' = NamesEnd(tpos + 2)
              /\ directives' = Append(directives,
                     [kind |-> "Type",
                      type_name |-> text(input, lexer[tpos + 2]),
                      rule_names |-> Texts(tpos + 2, NamesEnd(tpos + 2))]))
      ]_vars

\* The prologue tokens of the stream, in order.
PrologueTokens == SelectSeq(lexer, LAMBDA t : t.data = "Prologue")

\* C9: every stored prologue text is the slice strictly between the "%{" and
\* the "%}" of its prologue token.
C9_PrologueTextIsInner ==
    \A n \in 1..Len(prologues) :
        LET t == PrologueTokens[n]
        IN  prologues[n] = SubSeq(input, t.start + 3, t.end - 2)

\* The positions of the parse: a pass of parse_head, a test of the loop of
\* parse_rules, a pass of the alternatives loop, its terminator.
ParsePositions == {"head", "rules", "alternative", "terminator"}

\* C11: an error token is never accepted into a document.  No token the
\* parse has consumed is an error token; at every position of the parse, when
\* the next token is an error token, the step aborts the parse, or (at the
\* start of an alternative) goes to the alternative's terminator without
\* consuming it, where the next step aborts; no document is produced by
\* either, and the tokens of a text a document was returned for hold no
\* error token.
C11_ErrorTokenAborts ==
    /\ [](\A n \in 1..tpos : lexer[n].data # "Err")
    /\ [][(pc \in ParsePositions /\ NextIs({"Err"}))
             => /\ result' = <<>>
                /\ \/ pc' = "panic"
                   \/ pc = "alternative" /\ pc' = "terminator" /\ tpos' = tpos
          ]_vars
    /\ [](result # <<>> => \A n \in 1..Len(lexer) : lexer[n].data # "Err")

\* C11 witness: after a directive and a rule were parsed, the parse was
\* aborted between two rules, where the next token is an error token.
C11_Witness ==
    /\ pc = "panic"
    /\ NextIs({"Err"})
    /\ error = "Expected"
    /\ directives # <<>>
    /\ rules # <<>>
    /\ result = <<>>

-----------------------------------------------------------------------------
(* Properties of the round trip and of the edits.                          *)

\* C1: the parse of a printed document returns a document equal to the
\* printed one in its directives, its rules and its epilogue.
C1_RoundTrip ==
    (grammar # <<>> /\ pc \in {"done", "panic"})
        => /\ pc = "done"
           /\ result[1].directives = grammar[1].directives
           /\ result[1].rules = grammar[1].rules
           /\ result[1].epilogue = grammar[1].epilogue

\* C2: a text that parsed, with whitespace and comments put between its
\* tokens, parses to the same document.
C2_FillersChangeNothing ==
    (inserts > 0 /\ pc \in {"done", "panic"})
        => (pc = "done" /\ result = baseline)

\* C2 witness: a text with a directive and a rule has been parsed again
\* after a comment was put between two of its tokens.
C2_Witness ==
    /\ inserts > 0
    /\ pc = "done"
    /\ result = baseline
    /\ result[1].directives # <<>>
    /\ result[1].rules # <<>>
    /\ \E k \in 1..Len(input) : input[k] = "*"

====
